---- MODULE Spec2Model ----
(***************************************************************************)
(* Engagement consistency of the storytelling backend: like and follow     *)
(* toggles with their denormalized counters, rating aggregation and        *)
(* notification fan-out, as implemented by the mongoose models and the     *)
(* like controller.                                                        *)
(*                                                                         *)
(* Every request is handled by one worker.  A worker takes one step per    *)
(* store round trip (each `await` of the handler), so steps of different   *)
(* workers interleave exactly where the event loop can interleave them.    *)
(* A worker serves a single request and then stays in "done"; sequential   *)
(* calls are calls of different workers that do not overlap.               *)
(***************************************************************************)
EXTENDS Integers, FiniteSets, Sequences, Bags, TLC

(* ------------------------------ bounds -------------------------------- *)
NumWorkers == 2

Workers == 1..NumWorkers

(* ------------------------- entities in the store ---------------------- *)
Users    == {"u1", "u2", "u3"}
Stories  == {"s1", "s2"}
Chapters == {"c1"}
Comments == {"m1"}

Null    == "null"
NoRow   == 0
Missing == "zz"

\* Story.author, Chapter.story and Comment.user of the stored documents
StoryAuthor(s)  == IF s = "s1" THEN "u1" ELSE "u2"
ChapterStory(c) == "s1"
CommentUser(m)  == "u2"

\* the target types the like controller accepts
LikeTypes == {"story", "chapter", "comment"}

\* Story.findById / Chapter.findById / Comment.findById
TargetExists(tt, tid) ==
  \/ tt = "story"   /\ tid \in Stories
  \/ tt = "chapter" /\ tid \in Chapters
  \/ tt = "comment" /\ tid \in Comments

\* targetOwnerId as resolved through populate()
TargetOwner(tt, tid) ==
  CASE tt = "story"   -> StoryAuthor(tid)
    [] tt = "chapter" -> StoryAuthor(ChapterStory(tid))
    [] tt = "comment" -> CommentUser(tid)

\* request parameters the model draws from: the existing targets, a valid
\* type with an id that is not in the store, and a type outside the enum
LikeRequests ==
     {<<"story", s>> : s \in Stories}
  \cup {<<"chapter", c>> : c \in Chapters}
  \cup {<<"comment", m>> : m \in Comments}
  \cup {<<"story", Missing>>, <<"user", "u1">>}

VARIABLES
  pc,              \* position of each worker in its handler
  req,             \* the request a worker serves
  existing,        \* _id of the document findOne returned, NoRow for null
  result,          \* value returned by the toggle static
  resp,            \* what the caller finally gets
  fault,           \* which step of the worker failed, "none" if none did
  likedAtStart,    \* whether the like existed when the request arrived
  likes,           \* Like collection
  totalLikes,      \* Story.totalLikes
  chapterLikes,    \* Chapter.likes
  commentLikes,    \* Comment.likes
  notifications,   \* Notification collection (a bag of documents)
  follows,         \* Follow collection
  followersCount,  \* User.followersCount
  followingCount,  \* User.followingCount
  followersRead,   \* the Follow documents a fan-out has read
  followsAtRead,   \* the Follow collection as it was when the fan-out read it
  ratings,         \* Rating collection
  averageRating,   \* Story.averageRating, in tenths
  ratingCount,     \* Story.ratingCount
  ratingResp,      \* outcome of the last rating operation
  storyLoaded,     \* the Story document a rating hook has loaded
  ratingsRead,     \* the Rating documents a recompute has read
  ratingsSeen,     \* history: every content the Rating collection has had
                   \* under concurrent mutations
  commentDocs,     \* Comment collection, in creation order
  totalComments,   \* Story.totalComments
  commentsCount,   \* Chapter.commentsCount
  commentResp,     \* outcome of the last comment operation
  storyDocs,       \* Story collection: the _ids of the stories that exist
  totalViews,      \* Story.totalViews
  viewsLoaded,     \* totalViews of the Story document a getStory has loaded
  storiesCount     \* User.storiesCount

likeVars   == <<likes, totalLikes, chapterLikes, commentLikes>>
followVars == <<follows, followersCount, followingCount, followersRead,
                followsAtRead>>
ratingVars == <<ratings, averageRating, ratingCount, ratingResp, storyLoaded,
                ratingsRead, ratingsSeen>>
commentVars == <<commentDocs, totalComments, commentsCount, commentResp>>
storyVars  == <<storyDocs, totalViews, viewsLoaded, storiesCount>>

vars == <<pc, req, existing, result, resp, fault, likedAtStart, likeVars,
          notifications, followVars, ratingVars, commentVars, storyVars>>

NoReq  == [op |-> "none"]
NoResp == [status |-> "none"]

(* ------------------------------ Like model ---------------------------- *)

\* new this({ user, [targetType]: targetId, type }) with the schema defaults
NewLike(id, u, tt, tid) ==
  [id      |-> id,
   user    |-> u,
   story   |-> IF tt = "story"   THEN tid ELSE Null,
   chapter |-> IF tt = "chapter" THEN tid ELSE Null,
   comment |-> IF tt = "comment" THEN tid ELSE Null,
   type    |-> tt]

\* the query { user: userId, [targetType]: targetId }
LikeMatches(l, u, tt, tid) ==
  /\ l.user = u
  /\ CASE tt = "story"   -> l.story = tid
       [] tt = "chapter" -> l.chapter = tid
       [] tt = "comment" -> l.comment = tid

\* a query that leaves the user out
isLikedByAnyone(u, tt, tid) ==
  \E l \in likes : \E v \in Users : LikeMatches(l, v, tt, tid)

\* Like.isLikedBy: this.exists(query)
isLikedBy(u, tt, tid) == \E l \in likes : LikeMatches(l, u, tt, tid)

\* a save without the target validation
LikePreSaveAny(l) == TRUE

\* pre('save'): exactly one of story, chapter, comment is set
LikePreSaveOk(l) ==
  Cardinality({f \in {"story", "chapter", "comment"} : l[f] # Null}) = 1

\* a collection without unique indexes
LikeNoUniqueIndex(l) == FALSE

\* The three unique indexes { user, story }, { user, chapter } and
\* { user, comment }.  The schema stores the unused references as null
\* (default: null) and `user` is always present, so the sparse option leaves
\* no document out of any of the three indexes: null is an indexed value.
LikeDuplicateKey(l) ==
  \E k \in likes :
    /\ k.user = l.user
    /\ \/ k.story = l.story
       \/ k.chapter = l.chapter
       \/ k.comment = l.comment

\* a $set where the $inc belongs
IncOverwrite(cur, delta) == delta

\* $inc of a counter field
Inc(cur, delta) == cur + delta

\* hooks that also move the counter of the story a liked chapter is in
LikeCountersWithStory(l, delta) ==
  /\ totalLikes' =
       IF l.type = "story" /\ l.story # Null
       THEN [totalLikes EXCEPT ![l.story] = Inc(@, delta)]
       ELSE IF l.type = "chapter" /\ l.chapter # Null
       THEN [totalLikes EXCEPT ![ChapterStory(l.chapter)] = Inc(@, delta)]
       ELSE totalLikes
  /\ chapterLikes' =
       IF l.type = "chapter" /\ l.chapter # Null
       THEN [chapterLikes EXCEPT ![l.chapter] = Inc(@, delta)] ELSE chapterLikes
  /\ commentLikes' =
       IF l.type = "comment" /\ l.comment # Null
       THEN [commentLikes EXCEPT ![l.comment] = Inc(@, delta)] ELSE commentLikes

\* post('save') and post('remove') of Like: the counter of the document the
\* like points at moves by delta, chosen by the like's type
LikeCounters(l, delta) ==
  /\ totalLikes' =
       IF l.type = "story" /\ l.story # Null
       THEN [totalLikes EXCEPT ![l.story] = Inc(@, delta)] ELSE totalLikes
  /\ chapterLikes' =
       IF l.type = "chapter" /\ l.chapter # Null
       THEN [chapterLikes EXCEPT ![l.chapter] = Inc(@, delta)] ELSE chapterLikes
  /\ commentLikes' =
       IF l.type = "comment" /\ l.comment # Null
       THEN [commentLikes EXCEPT ![l.comment] = Inc(@, delta)] ELSE commentLikes

\* the document a like worker is about to save or has saved
OwnLike(w) == NewLike(w, req[w].user, req[w].ttype, req[w].tid)

\* notification type `like_${targetType}`
LikeNotifType(tt) ==
  CASE tt = "story"   -> "like_story"
    [] tt = "chapter" -> "like_chapter"
    [] tt = "comment" -> "like_comment"

\* the document createLikeNotification writes
LikeNotification(u, tt, tid, owner) ==
  [recipient |-> owner, sender |-> u, type |-> LikeNotifType(tt), ref |-> tid]

\* the controller without its own-content test
ShouldNotifyOwnContent(liked, owner, u) == liked /\ owner # Null

\* controller: result.liked && targetOwnerId && targetOwnerId !== userId
ShouldNotifyLike(liked, owner, u) == liked /\ owner # Null /\ owner # u

Finish(w, r, f) ==
  /\ pc' = [pc EXCEPT ![w] = "done"]
  /\ resp' = [resp EXCEPT ![w] = r]
  /\ fault' = [fault EXCEPT ![w] = f]

ErrorResp == [status |-> "error"]

\* the target lookup placed before the type check
LikeValidationLookupFirst(tt, tid) ==
  IF ~TargetExists(tt, tid) THEN "404"
  ELSE IF tt \notin LikeTypes THEN "400"
  ELSE "ok"

\* controller: the type check (400), then the target lookup (404)
LikeValidation(tt, tid) ==
  IF tt \notin LikeTypes THEN "400"
  ELSE IF ~TargetExists(tt, tid) THEN "404"
  ELSE "ok"

\* likeController.toggleLike up to the target lookup
LikeStart(w, u, tt, tid) ==
  /\ pc[w] = "idle"
  /\ req' = [req EXCEPT ![w] = [op |-> "like", user |-> u, ttype |-> tt, tid |-> tid]]
  /\ likedAtStart' = [likedAtStart EXCEPT ![w] =
                        tt \in LikeTypes /\ isLikedBy(u, tt, tid)]
  /\ IF LikeValidation(tt, tid) # "ok"
       THEN Finish(w, [status |-> LikeValidation(tt, tid)], "none")
       ELSE /\ pc' = [pc EXCEPT ![w] = "lk_find"]
            /\ UNCHANGED <<resp, fault>>
  /\ UNCHANGED <<existing, result, likeVars, notifications, followVars, ratingVars, commentVars, storyVars>>

\* The controller's lookup when the target exists and the User document
\* its author (or user) field points at is gone: populate leaves the field
\* null and `target?.author._id` throws a TypeError, which the catch hands
\* to next(error) before Like.toggleLike is called
LikeStartOwnerGone(w, u, tt, tid) ==
  /\ pc[w] = "idle"
  /\ tt \in LikeTypes /\ TargetExists(tt, tid)
  /\ req' = [req EXCEPT ![w] = [op |-> "like", user |-> u, ttype |-> tt, tid |-> tid]]
  /\ likedAtStart' = [likedAtStart EXCEPT ![w] = isLikedBy(u, tt, tid)]
  /\ Finish(w, ErrorResp, "ownerNull")
  /\ UNCHANGED <<existing, result, likeVars, notifications, followVars,
                 ratingVars, commentVars, storyVars>>

\* a toggle that runs the hook of a save it never made
LikeFindOneSkipSave(w) ==
  /\ pc[w] = "lk_find"
  /\ LET hit == {l \in likes : LikeMatches(l, req[w].user, req[w].ttype, req[w].tid)}
     IN IF hit = {}
        THEN /\ existing' = [existing EXCEPT ![w] = NoRow]
             /\ pc' = [pc EXCEPT ![w] = "lk_postSave"]
        ELSE /\ \E l \in hit : existing' = [existing EXCEPT ![w] = l.id]
             /\ pc' = [pc EXCEPT ![w] = "lk_remove"]
  /\ UNCHANGED <<req, result, resp, fault, likedAtStart, likeVars,
                 notifications, followVars, ratingVars, commentVars, storyVars>>

\* Like.toggleLike: existingLike = await this.findOne(query)
LikeFindOne(w) ==
  /\ pc[w] = "lk_find"
  /\ LET hit == {l \in likes : LikeMatches(l, req[w].user, req[w].ttype, req[w].tid)}
     IN IF hit = {}
        THEN /\ existing' = [existing EXCEPT ![w] = NoRow]
             /\ pc' = [pc EXCEPT ![w] = "lk_save"]
        ELSE /\ \E l \in hit : existing' = [existing EXCEPT ![w] = l.id]
             /\ pc' = [pc EXCEPT ![w] = "lk_remove"]
  /\ UNCHANGED <<req, result, resp, fault, likedAtStart, likeVars,
                 notifications, followVars, ratingVars, commentVars, storyVars>>

\* existingLike.remove(): deletes the document with that _id, if still there
LikeRemoveStrict(w) ==
  /\ pc[w] = "lk_remove"
  /\ IF \E l \in likes : l.id = existing[w]
     THEN /\ likes' = {l \in likes : l.id # existing[w]}
          /\ pc' = [pc EXCEPT ![w] = "lk_postRemove"]
          /\ UNCHANGED <<resp, fault>>
     ELSE /\ Finish(w, ErrorResp, "none")
          /\ UNCHANGED likes
  /\ UNCHANGED <<req, existing, result, likedAtStart, totalLikes,
                 chapterLikes, commentLikes, notifications, followVars,
                 ratingVars, commentVars, storyVars>>

LikeRemove(w) ==
  /\ pc[w] = "lk_remove"
  /\ likes' = {l \in likes : l.id # existing[w]}
  /\ pc' = [pc EXCEPT ![w] = "lk_postRemove"]
  /\ UNCHANGED <<req, existing, result, resp, fault, likedAtStart, totalLikes,
                 chapterLikes, commentLikes, notifications, followVars, ratingVars, commentVars, storyVars>>

\* post('remove'), then toggleLike returns { liked: false }
LikePostRemove(w) ==
  /\ pc[w] = "lk_postRemove"
  /\ LikeCounters(OwnLike(w), -1)
  /\ result' = [result EXCEPT ![w] = [liked |-> FALSE]]
  /\ pc' = [pc EXCEPT ![w] = "lk_respond"]
  /\ UNCHANGED <<req, existing, resp, fault, likedAtStart, likes,
                 notifications, followVars, ratingVars, commentVars, storyVars>>

\* newLike.save(): pre('save') validation, then the insert under the
\* unique indexes
LikeSave(w) ==
  /\ pc[w] = "lk_save"
  /\ LikePreSaveOk(OwnLike(w))
  /\ ~LikeDuplicateKey(OwnLike(w))
  /\ likes' = likes \cup {OwnLike(w)}
  /\ pc' = [pc EXCEPT ![w] = "lk_postSave"]
  /\ UNCHANGED <<req, existing, result, resp, fault, likedAtStart, totalLikes,
                 chapterLikes, commentLikes, notifications, followVars, ratingVars, commentVars, storyVars>>

\* a save that waits for the conflicting document to go away
LikeSaveWait(w) ==
  /\ pc[w] = "lk_save"
  /\ LikePreSaveOk(OwnLike(w)) /\ ~LikeDuplicateKey(OwnLike(w))
  /\ ~LikePreSaveOk(OwnLike(w)) \/ LikeDuplicateKey(OwnLike(w))
  /\ UNCHANGED vars

\* newLike.save() rejects; toggleLike has no catch, the controller's catch
\* hands the error to next(error)
LikeSaveError(w) ==
  /\ pc[w] = "lk_save"
  /\ ~LikePreSaveOk(OwnLike(w)) \/ LikeDuplicateKey(OwnLike(w))
  /\ Finish(w, ErrorResp,
            IF isLikedBy(req[w].user, req[w].ttype, req[w].tid)
            THEN "lostRace" ELSE "duplicateKey")
  /\ UNCHANGED <<req, existing, result, likedAtStart, likeVars,
                 notifications, followVars, ratingVars, commentVars, storyVars>>

\* post('save'), then toggleLike returns { liked: true }
LikePostSave(w) ==
  /\ pc[w] = "lk_postSave"
  /\ LikeCounters(OwnLike(w), 1)
  /\ result' = [result EXCEPT ![w] = [liked |-> TRUE]]
  /\ pc' = [pc EXCEPT ![w] = "lk_respond"]
  /\ UNCHANGED <<req, existing, resp, fault, likedAtStart, likes,
                 notifications, followVars, ratingVars, commentVars, storyVars>>

\* a failure path that compensates by deleting the like it has just saved
LikeCounterFailRollback(w) ==
  /\ pc[w] \in {"lk_postSave", "lk_postRemove"}
  /\ Finish(w, ErrorResp, "counter")
  /\ likes' = IF pc[w] = "lk_postSave" THEN likes \ {OwnLike(w)} ELSE likes
  /\ UNCHANGED <<req, existing, result, likedAtStart, totalLikes, chapterLikes,
                 commentLikes, notifications, followVars, ratingVars, commentVars, storyVars>>

\* the findByIdAndUpdate of a post hook rejects: the hook's error rejects
\* save() / remove(), toggleLike rethrows, the controller calls next(error)
LikeCounterFail(w) ==
  /\ pc[w] \in {"lk_postSave", "lk_postRemove"}
  /\ Finish(w, ErrorResp, "counter")
  /\ UNCHANGED <<req, existing, result, likedAtStart, likeVars,
                 notifications, followVars, ratingVars, commentVars, storyVars>>

\* controller after the toggle: the optional notification, then res.json
LikeRespond(w) ==
  /\ pc[w] = "lk_respond"
  /\ LET u     == req[w].user
         owner == TargetOwner(req[w].ttype, req[w].tid)
     IN notifications' =
          IF ShouldNotifyLike(result[w].liked, owner, u)
          THEN notifications (+)
               SetToBag({LikeNotification(u, req[w].ttype, req[w].tid, owner)})
          ELSE notifications
  /\ Finish(w, [status |-> "ok", liked |-> result[w].liked], "none")
  /\ UNCHANGED <<req, existing, result, likedAtStart, likeVars,
                 followVars, ratingVars, commentVars, storyVars>>

\* createLikeNotification rejects inside the controller's try block
LikeNotifyFail(w) ==
  /\ pc[w] = "lk_respond"
  /\ ShouldNotifyLike(result[w].liked,
                      TargetOwner(req[w].ttype, req[w].tid), req[w].user)
  /\ Finish(w, ErrorResp, "notify")
  /\ UNCHANGED <<req, existing, result, likedAtStart, likeVars,
                 notifications, followVars, ratingVars, commentVars, storyVars>>

\* controller checkLikeStatus: the type check, Like.isLikedBy, the answer
LikeCheck(w, u, tt, tid) ==
  /\ pc[w] = "idle"
  /\ req' = [req EXCEPT ![w] = [op |-> "checkLike", user |-> u, ttype |-> tt,
                                tid |-> tid]]
  /\ Finish(w, IF tt \notin LikeTypes THEN [status |-> "400"]
               ELSE [status |-> "ok", isLiked |-> isLikedBy(u, tt, tid)],
            "none")
  /\ UNCHANGED <<existing, result, likedAtStart, likeVars, notifications,
                 followVars, ratingVars, commentVars, storyVars>>

LikeStep(w) ==
  \/ \E u \in Users, t \in LikeRequests : LikeStart(w, u, t[1], t[2])
  \/ LikeFindOne(w)
  \/ LikeRemove(w)
  \/ LikePostRemove(w)
  \/ LikeSave(w)
  \/ LikeSaveError(w)
  \/ LikePostSave(w)
  \/ LikeRespond(w)

LikeFault(w) ==
  \/ LikeCounterFail(w)
  \/ LikeNotifyFail(w)

\* every worker idle, no notification
InitIdle ==
  /\ pc = [w \in Workers |-> "idle"]
  /\ req = [w \in Workers |-> NoReq]
  /\ existing = [w \in Workers |-> NoRow]
  /\ result = [w \in Workers |-> [liked |-> FALSE]]
  /\ resp = [w \in Workers |-> NoResp]
  /\ fault = [w \in Workers |-> "none"]
  /\ likedAtStart = [w \in Workers |-> FALSE]
  /\ notifications = EmptyBag
  /\ followersRead = [w \in Workers |-> {}]
  /\ followsAtRead = [w \in Workers |-> {}]
  /\ ratingResp = "none"
  /\ storyLoaded = [w \in Workers |-> [averageRating |-> 0, ratingCount |-> 0]]
  /\ ratingsRead = [w \in Workers |-> {}]
  /\ storyDocs = Stories
  /\ totalViews = [s \in Stories |-> 0]
  /\ viewsLoaded = [w \in Workers |-> 0]
  /\ storiesCount = [u \in Users |->
                       Cardinality({s \in Stories : StoryAuthor(s) = u})]

\* the store holds the Comment documents `docs`, and the counters are what
\* posting them has left: the defaults totalComments: 0 and commentsCount: 0
CommentsAre(docs) ==
  /\ commentDocs = docs
  /\ totalComments = [s \in Stories |-> 0]
  /\ commentsCount = [c \in Chapters |-> 0]
  /\ commentResp = "none"

\* every worker idle, no notification, no comment
InitWorkers == InitIdle /\ CommentsAre(<<>>)

\* every worker idle, the Notification and Rating collections empty: the
\* defaults averageRating: 0 and ratingCount: 0 of a story
InitRest ==
  /\ InitWorkers
  /\ ratings = {}
  /\ averageRating = [s \in Stories |-> 0]
  /\ ratingCount = [s \in Stories |-> 0]
  /\ ratingsSeen = {{}}

\* the store holds the Like documents `rows` and the counters that
\* completed, failure-free likes have left for them
LikesAre(rows) ==
  /\ likes = rows
  /\ totalLikes = [s \in Stories |-> Cardinality({l \in rows : l.story = s})]
  /\ chapterLikes = [c \in Chapters |-> Cardinality({l \in rows : l.chapter = c})]
  /\ commentLikes = [m \in Comments |-> Cardinality({l \in rows : l.comment = m})]

\* every worker idle, the Like, Notification and Rating collections empty
InitCommon == InitRest /\ LikesAre({})

\* the store holds the Follow documents `rows` and the counters that
\* completed, failure-free follows have left for them
FollowsAre(rows) ==
  /\ follows = rows
  /\ followersCount = [u \in Users |-> Cardinality({f \in rows : f.following = u})]
  /\ followingCount = [u \in Users |-> Cardinality({f \in rows : f.follower = u})]

Init == InitCommon /\ FollowsAre({})

\* concurrent like toggles with store failures
NextLike == \E w \in Workers : LikeStep(w) \/ LikeFault(w)

SpecLike == Init /\ [][NextLike]_vars

\* a like that was made before the workers start
SeedLikes == {NewLike(101, "u1", "story", "s1")}

InitLikeSeeded ==
  InitRest /\ FollowsAre({}) /\ \E rows \in SUBSET SeedLikes : LikesAre(rows)

\* concurrent like toggles, the store never failing
NextLikeNoFault == \E w \in Workers : LikeStep(w)

SpecLikeRace == InitLikeSeeded /\ [][NextLikeNoFault]_vars

\* the steps of a started toggle: the worker's own continuations and the
\* store's answers to it
LikeProgress(w) ==
  \/ LikeFindOne(w)
  \/ LikeRemove(w)
  \/ LikePostRemove(w)
  \/ LikeSave(w)
  \/ LikeSaveError(w)
  \/ LikePostSave(w)
  \/ LikeRespond(w)

\* the requests of the fair runs: two users, an existing story, an existing
\* chapter and a story that does not exist
FairRequests ==
  {"u1", "u2"} \X {<<"story", "s1">>, <<"chapter", "c1">>, <<"story", Missing>>}

NextLikeFair ==
  \E w \in Workers :
    \/ \E t \in FairRequests : LikeStart(w, t[1], t[2][1], t[2][2])
    \/ LikeProgress(w)
    \/ LikeFault(w)

\* concurrent like toggles with store failures; every awaited store call
\* is answered and every worker that can continue does
SpecLikeFair ==
  /\ Init /\ [][NextLikeFair]_vars
  /\ \A w \in Workers : WF_vars(LikeProgress(w))

\* like toggles, some of them on targets whose owner cannot be resolved
NextLikeOwnerGone ==
  \E w \in Workers :
    \/ LikeStep(w)
    \/ \E u \in Users, t \in LikeRequests : LikeStartOwnerGone(w, u, t[1], t[2])

SpecLikeOwnerGone == InitLikeSeeded /\ [][NextLikeOwnerGone]_vars

\* like toggles and like checks, interleaved, the store never failing
NextLikeCheck ==
  \E w \in Workers :
    \/ LikeStep(w)
    \/ \E u \in Users, t \in LikeRequests : LikeCheck(w, u, t[1], t[2])

SpecLikeCheck == InitLikeSeeded /\ [][NextLikeCheck]_vars

\* the other workers are at rest while one request is served
Alone(w) == \A v \in Workers \ {w} : pc[v] \in {"idle", "done"}

\* like toggles one after the other, the store never failing
NextLikeSeq ==
  \E w \in Workers :
    \/ Alone(w) /\ \E u \in Users, t \in LikeRequests : LikeStart(w, u, t[1], t[2])
    \/ Alone(w) /\ LikeFindOne(w)
    \/ Alone(w) /\ LikeRemove(w)
    \/ Alone(w) /\ LikePostRemove(w)
    \/ Alone(w) /\ LikeSave(w)
    \/ Alone(w) /\ LikeSaveError(w)
    \/ Alone(w) /\ LikePostSave(w)
    \/ Alone(w) /\ LikeRespond(w)

SpecLikeSeq == Init /\ [][NextLikeSeq]_vars

(* ----------------------------- Follow model --------------------------- *)

\* new this({ follower, following }) with the schema default isActive: true
NewFollow(id, a, b) ==
  [id |-> id, follower |-> a, following |-> b, isActive |-> TRUE]

\* a pre('save') hook that validates nothing
FollowPreSaveSkipped(f) == TRUE

\* pre('save'): follower.toString() !== following.toString()
FollowPreSaveOk(f) == f.follower # f.following

\* a collection without the unique index
FollowNoUniqueIndex(f) == FALSE

\* the unique index { follower: 1, following: 1 }
FollowDuplicateKey(f) ==
  \E k \in follows : k.follower = f.follower /\ k.following = f.following

\* toggleFollow is called with two ids; strictEq says whether `===` holds
\* for them, which it can only do for two equal strings (two ObjectId
\* instances of the same value are different objects)
FollowRequests ==
  {t \in Users \X Users \X BOOLEAN : t[3] => t[1] = t[2]}

OwnFollow(w) == NewFollow(w, req[w].follower, req[w].following)

\* Follow.toggleFollow: the `===` guard before any store access
FollowStart(w, a, b, strictEq) ==
  /\ pc[w] = "idle"
  /\ req' = [req EXCEPT ![w] = [op |-> "follow", follower |-> a, following |-> b,
                                strictEq |-> strictEq]]
  /\ IF strictEq
       THEN Finish(w, ErrorResp, "self")
       ELSE /\ pc' = [pc EXCEPT ![w] = "fl_find"]
            /\ UNCHANGED <<resp, fault>>
  /\ UNCHANGED <<existing, result, likedAtStart, likeVars, notifications,
                 followVars, ratingVars, commentVars, storyVars>>

\* existingFollow = await this.findOne({ follower, following })
FollowFindOne(w) ==
  /\ pc[w] = "fl_find"
  /\ LET hit == {f \in follows : /\ f.follower = req[w].follower
                                 /\ f.following = req[w].following}
     IN IF hit = {}
        THEN /\ existing' = [existing EXCEPT ![w] = NoRow]
             /\ pc' = [pc EXCEPT ![w] = "fl_save"]
        ELSE /\ \E f \in hit : existing' = [existing EXCEPT ![w] = f.id]
             /\ pc' = [pc EXCEPT ![w] = "fl_remove"]
  /\ UNCHANGED <<req, result, resp, fault, likedAtStart, likeVars,
                 notifications, followVars, ratingVars, commentVars, storyVars>>

\* existingFollow.remove()
FollowRemove(w) ==
  /\ pc[w] = "fl_remove"
  /\ follows' = {f \in follows : f.id # existing[w]}
  /\ pc' = [pc EXCEPT ![w] = "fl_postRemove1"]
  /\ UNCHANGED <<req, existing, result, resp, fault, likedAtStart, likeVars,
                 notifications, followersCount, followingCount, followersRead,
                 followsAtRead, ratingVars, commentVars, storyVars>>

\* post('remove'), first update: the follower's followingCount
FollowPostRemove1(w) ==
  /\ pc[w] = "fl_postRemove1"
  /\ followingCount' = [followingCount EXCEPT ![req[w].follower] = Inc(@, -1)]
  /\ pc' = [pc EXCEPT ![w] = "fl_postRemove2"]
  /\ UNCHANGED <<req, existing, result, resp, fault, likedAtStart, likeVars,
                 notifications, follows, followersCount, followersRead,
                 followsAtRead, ratingVars, commentVars, storyVars>>

\* post('remove'), second update: the followed user's followersCount; then
\* toggleFollow returns { following: false }
FollowPostRemove2(w) ==
  /\ pc[w] = "fl_postRemove2"
  /\ followersCount' = [followersCount EXCEPT ![req[w].following] = Inc(@, -1)]
  /\ Finish(w, [status |-> "ok", following |-> FALSE], "none")
  /\ UNCHANGED <<req, existing, result, likedAtStart, likeVars, notifications,
                 follows, followingCount, followersRead, followsAtRead,
                 ratingVars, commentVars, storyVars>>

\* newFollow.save(): pre('save') validation, then the insert under the
\* unique index
FollowSave(w) ==
  /\ pc[w] = "fl_save"
  /\ FollowPreSaveOk(OwnFollow(w))
  /\ ~FollowDuplicateKey(OwnFollow(w))
  /\ follows' = follows \cup {OwnFollow(w)}
  /\ pc' = [pc EXCEPT ![w] = "fl_postSave1"]
  /\ UNCHANGED <<req, existing, result, resp, fault, likedAtStart, likeVars,
                 notifications, followersCount, followingCount, followersRead,
                 followsAtRead, ratingVars, commentVars, storyVars>>

\* newFollow.save() rejects and toggleFollow, which has no catch, throws
FollowSaveError(w) ==
  /\ pc[w] = "fl_save"
  /\ ~FollowPreSaveOk(OwnFollow(w)) \/ FollowDuplicateKey(OwnFollow(w))
  /\ Finish(w, ErrorResp,
            IF ~FollowPreSaveOk(OwnFollow(w)) THEN "self" ELSE "lostRace")
  /\ UNCHANGED <<req, existing, result, likedAtStart, likeVars, notifications,
                 followVars, ratingVars, commentVars, storyVars>>

\* post('save'), first update: the follower's followingCount
FollowPostSave1(w) ==
  /\ pc[w] = "fl_postSave1"
  /\ followingCount' =
       IF OwnFollow(w).isActive
       THEN [followingCount EXCEPT ![req[w].follower] = Inc(@, 1)]
       ELSE followingCount
  /\ pc' = [pc EXCEPT ![w] = "fl_postSave2"]
  /\ UNCHANGED <<req, existing, result, resp, fault, likedAtStart, likeVars,
                 notifications, follows, followersCount, followersRead,
                 followsAtRead, ratingVars, commentVars, storyVars>>

\* the second update on the follower's own document
FollowPostSave2OnFollower(w) ==
  /\ pc[w] = "fl_postSave2"
  /\ followersCount' =
       IF OwnFollow(w).isActive
       THEN [followersCount EXCEPT ![req[w].follower] = Inc(@, 1)]
       ELSE followersCount
  /\ Finish(w, [status |-> "ok", following |-> TRUE], "none")
  /\ UNCHANGED <<req, existing, result, likedAtStart, likeVars, notifications,
                 follows, followingCount, followersRead, followsAtRead,
                 ratingVars, commentVars, storyVars>>

\* post('save'), second update: the followed user's followersCount; then
\* toggleFollow returns { following: true }
FollowPostSave2(w) ==
  /\ pc[w] = "fl_postSave2"
  /\ followersCount' =
       IF OwnFollow(w).isActive
       THEN [followersCount EXCEPT ![req[w].following] = Inc(@, 1)]
       ELSE followersCount
  /\ Finish(w, [status |-> "ok", following |-> TRUE], "none")
  /\ UNCHANGED <<req, existing, result, likedAtStart, likeVars, notifications,
                 follows, followingCount, followersRead, followsAtRead,
                 ratingVars, commentVars, storyVars>>

\* a findByIdAndUpdate of a post hook rejects: save() / remove() reject and
\* toggleFollow throws
FollowCounterFail(w) ==
  /\ pc[w] \in {"fl_postSave1", "fl_postSave2", "fl_postRemove1", "fl_postRemove2"}
  /\ Finish(w, ErrorResp, "counter")
  /\ UNCHANGED <<req, existing, result, likedAtStart, likeVars, notifications,
                 followVars, ratingVars, commentVars, storyVars>>

FollowStep(w) ==
  \/ \E t \in FollowRequests : FollowStart(w, t[1], t[2], t[3])
  \/ FollowFindOne(w)
  \/ FollowRemove(w)
  \/ FollowPostRemove1(w)
  \/ FollowPostRemove2(w)
  \/ FollowSave(w)
  \/ FollowSaveError(w)
  \/ FollowPostSave1(w)
  \/ FollowPostSave2(w)

(* ------------------------- new-chapter fan-out ------------------------ *)

\* the query on the wrong side of the relation
FollowersOfSwapped(rows, author) == {f \in rows : f.follower = author}

\* Follow.find({ following: authorId }).select('follower')
FollowersOf(rows, author) == {f \in rows : f.following = author}

\* one notification document of the batch
ChapterNotification(f, author, ch) ==
  [recipient |-> f.follower, sender |-> author, type |-> "new_chapter", ref |-> ch]

\* followers.map(...): one document per Follow document read
RECURSIVE NotificationBatch(_, _, _)
NotificationBatch(rows, author, ch) ==
  IF rows = {} THEN EmptyBag
  ELSE LET f == CHOOSE x \in rows : TRUE
       IN SetToBag({ChapterNotification(f, author, ch)})
          (+) NotificationBatch(rows \ {f}, author, ch)

\* createNewChapterNotification: the Promise.all of the four reads
PublishRead(w, author, ch) ==
  /\ pc[w] = "idle"
  /\ StoryAuthor(ChapterStory(ch)) = author
  /\ req' = [req EXCEPT ![w] = [op |-> "publish", author |-> author, chapter |-> ch]]
  /\ followersRead' = [followersRead EXCEPT ![w] = FollowersOf(follows, author)]
  /\ followsAtRead' = [followsAtRead EXCEPT ![w] = follows]
  /\ pc' = [pc EXCEPT ![w] = "pub_insert"]
  /\ UNCHANGED <<existing, result, resp, fault, likedAtStart, likeVars,
                 notifications, follows, followersCount, followingCount,
                 ratingVars, commentVars, storyVars>>

\* this.insertMany(notifications)
PublishInsert(w) ==
  /\ pc[w] = "pub_insert"
  /\ notifications' = notifications (+)
       NotificationBatch(followersRead[w], req[w].author, req[w].chapter)
  /\ Finish(w, [status |-> "ok"], "none")
  /\ UNCHANGED <<req, existing, result, likedAtStart, likeVars, followVars,
                 ratingVars, commentVars, storyVars>>

PublishStep(w) ==
  \/ \E a \in Users, c \in Chapters : PublishRead(w, a, c)
  \/ PublishInsert(w)

\* concurrent follow toggles and chapter publications, with store failures
NextFollow ==
  \E w \in Workers : FollowStep(w) \/ FollowCounterFail(w) \/ PublishStep(w)

\* follows that were made before the workers start
SeedFollows ==
  {[id |-> 101, follower |-> "u2", following |-> "u1", isActive |-> TRUE],
   [id |-> 102, follower |-> "u3", following |-> "u1", isActive |-> TRUE]}

InitFollow == InitCommon /\ \E rows \in SUBSET SeedFollows : FollowsAre(rows)

SpecFollow == InitFollow /\ [][NextFollow]_vars

\* follow toggles one after the other, the store never failing
NextFollowSeq ==
  \E w \in Workers :
    \/ Alone(w) /\ \E t \in FollowRequests : FollowStart(w, t[1], t[2], t[3])
    \/ Alone(w) /\ FollowFindOne(w)
    \/ Alone(w) /\ FollowRemove(w)
    \/ Alone(w) /\ FollowPostRemove1(w)
    \/ Alone(w) /\ FollowPostRemove2(w)
    \/ Alone(w) /\ FollowSave(w)
    \/ Alone(w) /\ FollowSaveError(w)
    \/ Alone(w) /\ FollowPostSave1(w)
    \/ Alone(w) /\ FollowPostSave2(w)

SpecFollowSeq == InitFollow /\ [][NextFollowSeq]_vars

\* like and follow toggles side by side, with store failures
NextToggle ==
  \E w \in Workers :
    LikeStep(w) \/ LikeFault(w) \/ FollowStep(w) \/ FollowCounterFail(w)

SpecToggle == Init /\ [][NextToggle]_vars

(* -------------------- Like documents saved directly ------------------- *)

\* pre('save'): the type set from the reference that is present
LikePreSaveType(l) ==
  IF l.story # Null THEN "story"
  ELSE IF l.chapter # Null THEN "chapter"
  ELSE IF l.comment # Null THEN "comment"
  ELSE l.type

\* the Like documents a caller may build: any references, any type of the
\* enum
LikeDocs(id) ==
  {[id |-> id, user |-> u, story |-> s, chapter |-> c, comment |-> m, type |-> tt] :
     u \in {"u1", "u2"}, s \in {Null, "s1"}, c \in {Null, "c1"},
     m \in {Null, "m1"}, tt \in LikeTypes}

\* the document a worker saves, as pre('save') leaves it
OwnLikeDoc(w) == [req[w].doc EXCEPT !.type = LikePreSaveType(req[w].doc)]

\* new Like(doc).save(): pre('save') and the insert under the unique indexes
LikeDocSave(w, l) ==
  /\ pc[w] = "idle"
  /\ req' = [req EXCEPT ![w] = [op |-> "likeSave", doc |-> l]]
  /\ IF LikePreSaveOk(l) /\ ~LikeDuplicateKey(l)
     THEN /\ likes' = likes \cup {[l EXCEPT !.type = LikePreSaveType(l)]}
          /\ pc' = [pc EXCEPT ![w] = "ld_postSave"]
          /\ UNCHANGED <<resp, fault>>
     ELSE /\ Finish(w, ErrorResp,
                    IF LikePreSaveOk(l) THEN "duplicateKey" ELSE "targets")
          /\ UNCHANGED likes
  /\ UNCHANGED <<existing, result, likedAtStart, totalLikes, chapterLikes,
                 commentLikes, notifications, followVars, ratingVars,
                 commentVars, storyVars>>

\* post('save') of the saved document
LikeDocPostSave(w) ==
  /\ pc[w] = "ld_postSave"
  /\ LikeCounters(OwnLikeDoc(w), 1)
  /\ Finish(w, [status |-> "ok"], "none")
  /\ UNCHANGED <<req, existing, result, likedAtStart, likes, notifications,
                 followVars, ratingVars, commentVars, storyVars>>

LikeDocStep(w) ==
  \/ \E l \in LikeDocs(w) : LikeDocSave(w, l)
  \/ LikeDocPostSave(w)

\* like toggles and direct saves of Like documents, interleaved
NextLikeDoc == \E w \in Workers : LikeStep(w) \/ LikeDocStep(w)

SpecLikeDoc == Init /\ [][NextLikeDoc]_vars

(* ----------------------- notification creators ------------------------ *)

\* the type without the chapter test
CommentNotifTypeStory(ch) == "comment_story"

\* type: chapterId ? 'comment_chapter' : 'comment_story'
CommentNotifType(ch) == IF ch # Null THEN "comment_chapter" ELSE "comment_story"

\* the document createCommentNotification writes
CommentNotification(u, s, ch, owner) ==
  [recipient |-> owner, sender |-> u, type |-> CommentNotifType(ch),
   ref |-> IF ch # Null THEN ch ELSE s]

\* the stories and chapters a comment can be on: (story, chapter or null)
NotifyScopes == (Stories \X {Null}) \cup {<<ChapterStory(c), c>> : c \in Chapters}

\* who acts and who owns in the calls of the creators
NotifyUsers == {"u1", "u2"}

NotifyUnchangedRest ==
  UNCHANGED <<existing, result, likedAtStart, likeVars, followVars,
              ratingVars, commentVars, storyVars>>

\* a creator that also counts the notification on the recipient side
NotifyCallCounting(w, r, docs) ==
  /\ pc[w] = "idle"
  /\ req' = [req EXCEPT ![w] = r]
  /\ notifications' = notifications (+) docs
  /\ followersCount' = [u \in Users |->
                          followersCount[u] + BagCardinality(docs)]
  /\ Finish(w, [status |-> "ok"], "none")
  /\ UNCHANGED <<existing, result, likedAtStart, likeVars, follows,
                 followingCount, followersRead, followsAtRead, ratingVars,
                 commentVars, storyVars>>

\* one call of a notification creator that writes the documents `docs`
NotifyCall(w, r, docs) ==
  /\ pc[w] = "idle"
  /\ req' = [req EXCEPT ![w] = r]
  /\ notifications' = notifications (+) docs
  /\ Finish(w, [status |-> "ok"], "none")
  /\ NotifyUnchangedRest

\* Notification.createCommentNotification(userId, storyId, chapterId,
\* storyOwnerId)
NotifyComment(w, u, s, ch, owner) ==
  NotifyCall(w, [op |-> "notifyComment", user |-> u, story |-> s,
                 chapter |-> ch, owner |-> owner],
             IF u = owner THEN EmptyBag
             ELSE SetToBag({CommentNotification(u, s, ch, owner)}))

\* Notification.createFollowNotification(followerId, followingId)
NotifyFollow(w, a, b) ==
  NotifyCall(w, [op |-> "notifyFollow", follower |-> a, following |-> b],
             SetToBag({[recipient |-> b, sender |-> a, type |-> "follow",
                        ref |-> a]}))

\* Notification.createLikeNotification(userId, targetId, targetType,
\* targetOwnerId)
NotifyLike(w, u, tt, tid, owner) ==
  NotifyCall(w, [op |-> "notifyLike", user |-> u, ttype |-> tt, tid |-> tid,
                 owner |-> owner],
             IF u = owner THEN EmptyBag
             ELSE SetToBag({LikeNotification(u, tt, tid, owner)}))

NotifyStep(w) ==
  \/ \E u \in NotifyUsers, t \in NotifyScopes, owner \in NotifyUsers :
       NotifyComment(w, u, t[1], t[2], owner)
  \/ \E a \in NotifyUsers, b \in NotifyUsers : NotifyFollow(w, a, b)
  \/ \E u \in NotifyUsers, t \in LikeRequests, owner \in NotifyUsers :
       TargetExists(t[1], t[2]) /\ NotifyLike(w, u, t[1], t[2], owner)

\* the notification creators called while follows are toggled and chapters
\* published
NextNotify ==
  \E w \in Workers : NotifyStep(w) \/ PublishStep(w) \/ FollowStep(w)

SpecNotify == InitFollow /\ [][NextNotify]_vars

(* ----------------------------- Rating model --------------------------- *)

RatingMin == 1
RatingMax == 5

\* the values a client may send, in and out of the schema's range
RatingInputs == (RatingMin - 1)..(RatingMax + 1)

\* who rates which story in the model
RatingRequests == ((Users \cup {"u4"}) \X {"s1"}) \cup {<<"u1", "s2">>}

\* the validators min: 1 and max: 5 of Rating.value
RatingValueOk(v) == RatingMin <= v /\ v <= RatingMax

\* Rating.find({ story: this._id })
RatingsOf(rows, s) == {r \in rows : r.story = s}

\* ratings.reduce((acc, rating) => acc + rating.value, 0)
RECURSIVE SumValues(_)
SumValues(rows) ==
  IF rows = {} THEN 0
  ELSE LET r == CHOOSE x \in rows : TRUE
       IN r.value + SumValues(rows \ {r})

\* Math.floor where Math.round belongs
RoundTenthsDown(sum, n) == (10 * sum) \div n

\* Math.round((sum / n) * 10), the average in tenths: Math.round is
\* floor(x + 1/2).  The double arithmetic is exact here: sum/n*10 lies on a
\* half only for n a multiple of 4, where sum/n is a binary fraction unless
\* n is also a multiple of 5.
RoundTenths(sum, n) == (20 * sum + n) \div (2 * n)

\* storySchema.methods.calculateAverageRating, as called by the Rating hooks
CalculateAverageRating(rows, s) ==
  LET mine == RatingsOf(rows, s)
      n    == Cardinality(mine)
  IN /\ averageRating' = [averageRating EXCEPT ![s] =
                           IF n = 0 THEN 0 ELSE RoundTenths(SumValues(mine), n)]
     /\ ratingCount' = [ratingCount EXCEPT ![s] = n]

RatingUnchangedRest ==
  UNCHANGED <<pc, req, existing, result, resp, fault, likedAtStart, likeVars,
              notifications, followVars, storyLoaded, ratingsRead, ratingsSeen,
              commentVars, storyVars>>

\* new Rating({ user, story, value }).save() with its post('save') hook
RatingCreate(u, s, v) ==
  /\ RatingValueOk(v)
  /\ ~\E r \in ratings : r.user = u /\ r.story = s
  /\ ratings' = ratings \cup {[user |-> u, story |-> s, value |-> v]}
  /\ CalculateAverageRating(ratings', s)
  /\ ratingResp' = "created"
  /\ RatingUnchangedRest

\* save() of a Rating rejected by the value validators, or save() of a new
\* Rating rejected by the unique index { user, story }: nothing is written
\* and no hook runs
RatingReject(u, s, v) ==
  /\ ~RatingValueOk(v) \/ \E r \in ratings : r.user = u /\ r.story = s
  /\ ratingResp' = "rejected"
  /\ UNCHANGED <<ratings, averageRating, ratingCount>>
  /\ RatingUnchangedRest

\* rating.value = v; rating.save() with its post('save') hook
RatingUpdate(u, s, v) ==
  /\ RatingValueOk(v)
  /\ \E r \in ratings :
       /\ r.user = u /\ r.story = s
       /\ ratings' = (ratings \ {r}) \cup {[r EXCEPT !.value = v]}
  /\ CalculateAverageRating(ratings', s)
  /\ ratingResp' = "updated"
  /\ RatingUnchangedRest

\* rating.remove() with its post('remove') hook
RatingRemove(u, s) ==
  /\ \E r \in ratings :
       /\ r.user = u /\ r.story = s
       /\ ratings' = ratings \ {r}
  /\ CalculateAverageRating(ratings', s)
  /\ ratingResp' = "removed"
  /\ RatingUnchangedRest

\* rating mutations one after the other
NextRating ==
  \E t \in RatingRequests :
    \/ \E v \in RatingInputs : RatingCreate(t[1], t[2], v)
    \/ \E v \in RatingInputs : RatingReject(t[1], t[2], v)
    \/ \E v \in RatingInputs : RatingUpdate(t[1], t[2], v)
    \/ RatingRemove(t[1], t[2])

SpecRating == Init /\ [][NextRating]_vars

(* ---------------------- Rating model, concurrent ---------------------- *)

\* what calculateAverageRating computes from the documents it has read:
\* the average in tenths and the count
RatingAggregate(rows) ==
  LET n == Cardinality(rows)
  IN [averageRating |-> IF n = 0 THEN 0 ELSE RoundTenths(SumValues(rows), n),
      ratingCount   |-> n]

\* the store holds the Rating documents `rows` and every story holds the
\* aggregate of its own
RatingsAre(rows) ==
  /\ ratings = rows
  /\ averageRating = [s \in Stories |-> RatingAggregate(RatingsOf(rows, s)).averageRating]
  /\ ratingCount = [s \in Stories |-> RatingAggregate(RatingsOf(rows, s)).ratingCount]
  /\ ratingsSeen = {rows}

\* who rates under concurrency, with which values
RaceRequests == Users \X {"s1"}
RaceValues == {RatingMin, RatingMax}

RateUnchangedRest ==
  UNCHANGED <<existing, result, likedAtStart, likeVars, notifications,
              followVars, ratingResp, commentVars, storyVars>>

\* the write of a rating mutation is done: its post hook runs next
RateWritten(w, s) ==
  /\ ratingsSeen' = ratingsSeen \cup {ratings'}
  /\ req' = [req EXCEPT ![w] = [op |-> "rate", story |-> s]]
  /\ pc' = [pc EXCEPT ![w] = "rt_load"]
  /\ UNCHANGED <<resp, fault, averageRating, ratingCount, storyLoaded,
                 ratingsRead>>
  /\ RateUnchangedRest

\* new Rating({ user, story, value }).save(): the insert
RateCreate(w, u, s, v) ==
  /\ pc[w] = "idle"
  /\ ~\E r \in ratings : r.user = u /\ r.story = s
  /\ ratings' = ratings \cup {[user |-> u, story |-> s, value |-> v]}
  /\ RateWritten(w, s)

\* the insert rejected by the unique index { user, story }: no hook runs
RateDuplicate(w, u, s, v) ==
  /\ pc[w] = "idle"
  /\ \E r \in ratings : r.user = u /\ r.story = s
  /\ req' = [req EXCEPT ![w] = [op |-> "rate", story |-> s]]
  /\ Finish(w, ErrorResp, "duplicateKey")
  /\ UNCHANGED <<ratings, averageRating, ratingCount, storyLoaded,
                 ratingsRead, ratingsSeen>>
  /\ RateUnchangedRest

\* rating.value = v; rating.save(): the update
RateUpdate(w, u, s, v) ==
  /\ pc[w] = "idle"
  /\ \E r \in ratings :
       /\ r.user = u /\ r.story = s
       /\ ratings' = (ratings \ {r}) \cup {[r EXCEPT !.value = v]}
  /\ RateWritten(w, s)

\* rating.remove(): the delete
RateRemove(w, u, s) ==
  /\ pc[w] = "idle"
  /\ \E r \in ratings :
       /\ r.user = u /\ r.story = s
       /\ ratings' = ratings \ {r}
  /\ RateWritten(w, s)

\* the post hook: const story = await Story.findById(this.story)
RateLoadStory(w) ==
  /\ pc[w] = "rt_load"
  /\ storyLoaded' = [storyLoaded EXCEPT ![w] =
                       [averageRating |-> averageRating[req[w].story],
                        ratingCount   |-> ratingCount[req[w].story]]]
  /\ pc' = [pc EXCEPT ![w] = "rt_find"]
  /\ UNCHANGED <<req, resp, fault, ratings, averageRating, ratingCount,
                 ratingsRead, ratingsSeen>>
  /\ RateUnchangedRest

\* calculateAverageRating: const ratings = await Rating.find({ story })
RateFind(w) ==
  /\ pc[w] = "rt_find"
  /\ ratingsRead' = [ratingsRead EXCEPT ![w] = RatingsOf(ratings, req[w].story)]
  /\ pc' = [pc EXCEPT ![w] = "rt_save"]
  /\ UNCHANGED <<req, resp, fault, ratings, averageRating, ratingCount,
                 storyLoaded, ratingsSeen>>
  /\ RateUnchangedRest

\* this.save() of the loaded story writes the paths whose value the
\* assignment changed; the others keep what the store holds
StoryFieldWritten(loaded, computed, stored) ==
  IF computed # loaded THEN computed ELSE stored

\* calculateAverageRating: the two assignments and return this.save()
RateStorySave(w) ==
  LET s   == req[w].story
      agg == RatingAggregate(ratingsRead[w])
  IN /\ pc[w] = "rt_save"
     /\ averageRating' = [averageRating EXCEPT ![s] =
                            StoryFieldWritten(storyLoaded[w].averageRating,
                                              agg.averageRating, @)]
     /\ ratingCount' = [ratingCount EXCEPT ![s] =
                          StoryFieldWritten(storyLoaded[w].ratingCount,
                                            agg.ratingCount, @)]
     /\ Finish(w, [status |-> "ok"], "none")
     /\ UNCHANGED <<req, ratings, storyLoaded, ratingsRead, ratingsSeen>>
     /\ RateUnchangedRest

\* rating mutations and their recomputes, interleaved
NextRatingRace ==
  \E w \in Workers :
    \/ \E t \in RaceRequests, v \in RaceValues : RateCreate(w, t[1], t[2], v)
    \/ \E t \in RaceRequests, v \in RaceValues : RateDuplicate(w, t[1], t[2], v)
    \/ \E t \in RaceRequests, v \in RaceValues : RateUpdate(w, t[1], t[2], v)
    \/ \E t \in RaceRequests : RateRemove(w, t[1], t[2])
    \/ RateLoadStory(w)
    \/ RateFind(w)
    \/ RateStorySave(w)

\* ratings that were made before the workers start
SeedRatings == {[user |-> "u1", story |-> "s1", value |-> RatingMax],
                [user |-> "u2", story |-> "s1", value |-> RatingMax]}

InitRatingSeeded ==
  /\ InitWorkers /\ LikesAre({}) /\ FollowsAre({})
  /\ \E rows \in SUBSET SeedRatings : RatingsAre(rows)

SpecRatingRace == InitRatingSeeded /\ [][NextRatingRace]_vars

(* ----------------------------- Comment model -------------------------- *)

MaxComments == 3

ReplyLimit == 5
DefaultLimit == 20

Tombstone == "[This comment has been deleted]"

\* who comments in the model, on what, saying what
CommentUsers == {"u2"}
CommentScopes == {<<"s1", Null>>, <<"s1", "c1">>, <<"s2", Null>>}
Contents == {"hello", " "}

\* trim: true
Trim(c) == IF c = " " THEN "" ELSE c

\* required and minlength: 1 of Comment.content, after the trim
ContentOk(c) == Trim(c) # ""

\* the _id of the comments in the collection
CommentIds == 1..Len(commentDocs)

\* new Comment({ content, user, story, chapter, parentComment }) with the
\* schema's defaults
NewComment(id, u, s, ch, parent, c) ==
  [id |-> id, user |-> u, story |-> s, chapter |-> ch,
   parentComment |-> parent, content |-> Trim(c), replies |-> <<>>,
   isDeleted |-> FALSE, deletedAt |-> Null, isEdited |-> FALSE,
   editedAt |-> Null]

\* this.isNew as post('save') sees it: Mongoose clears the flag when the
\* insert is acknowledged, before the post hooks run
IsNewInPostSave(inserted) == FALSE

\* { $push: { replies: id } } on the parent comment, when there is one
PushReply(docs, parent, id) ==
  [i \in 1..Len(docs) |->
     IF docs[i].id = parent
     THEN [docs[i] EXCEPT !.replies = Append(@, id)]
     ELSE docs[i]]

\* commentSchema.post('save') for the saved document d
CommentPostSave(docs, d, inserted) ==
  IF IsNewInPostSave(inserted) /\ ~d.isDeleted
  THEN /\ totalComments' = [totalComments EXCEPT ![d.story] = @ + 1]
       /\ commentsCount' = [c \in Chapters |->
                              commentsCount[c] + IF d.chapter = c THEN 1 ELSE 0]
       /\ commentDocs' = IF d.parentComment # NoRow
                         THEN PushReply(docs, d.parentComment, d.id)
                         ELSE docs
  ELSE /\ commentDocs' = docs
       /\ UNCHANGED <<totalComments, commentsCount>>

CommentUnchangedRest ==
  UNCHANGED <<pc, req, existing, result, resp, fault, likedAtStart, likeVars,
              notifications, followVars, ratingVars, storyVars>>

\* new Comment(...).save(): validation, the insert, post('save')
CommentPost(u, s, ch, parent, c) ==
  /\ Len(commentDocs) < MaxComments
  /\ ContentOk(c)
  /\ LET d == NewComment(Len(commentDocs) + 1, u, s, ch, parent, c)
     IN CommentPostSave(Append(commentDocs, d), d, TRUE)
  /\ commentResp' = "posted"
  /\ CommentUnchangedRest

\* save() rejected by the validators of content: nothing is written
CommentPostReject(u, s, ch, parent, c) ==
  /\ ~ContentOk(c)
  /\ commentResp' = "rejected"
  /\ UNCHANGED <<commentDocs, totalComments, commentsCount>>
  /\ CommentUnchangedRest

\* commentSchema.pre('save') of a stored document whose fields went from
\* `old` to `new`
CommentPreSave(old, new) ==
  IF new.content # old.content
  THEN [new EXCEPT !.isEdited = TRUE, !.editedAt = "date"]
  ELSE new

\* a delete that also marks the replies of the comment
CommentSoftDeleteCascade(id) ==
  /\ id \in CommentIds
  /\ commentDocs' =
       [i \in CommentIds |->
          IF i = id \/ commentDocs[i].parentComment = id
          THEN [commentDocs[i] EXCEPT !.isDeleted = TRUE, !.deletedAt = "date",
                                      !.content = Tombstone]
          ELSE commentDocs[i]]
  /\ UNCHANGED <<totalComments, commentsCount>>
  /\ commentResp' = "deleted"
  /\ CommentUnchangedRest

\* commentSchema.methods.softDelete on the comment `id`
CommentSoftDelete(id) ==
  /\ id \in CommentIds
  /\ LET old == commentDocs[id]
         new == CommentPreSave(old, [old EXCEPT !.isDeleted = TRUE,
                                                !.deletedAt = "date",
                                                !.content = Tombstone])
     IN CommentPostSave([commentDocs EXCEPT ![id] = new], new, FALSE)
  /\ commentResp' = "deleted"
  /\ CommentUnchangedRest

Min(a, b) == IF a < b THEN a ELSE b

\* the first n elements of a sequence: limit(n)
Limit(seq, n) == SubSeq(seq, 1, Min(Len(seq), n))

RECURSIVE Reverse(_)
Reverse(seq) ==
  IF seq = <<>> THEN <<>> ELSE Append(Reverse(Tail(seq)), Head(seq))

\* the same query without its sort: the collection's own order
TopLevelCommentsUnsorted(storyId, chapterId) ==
  LET Match(d) == /\ d.story = storyId
                  /\ d.parentComment = NoRow
                  /\ ~d.isDeleted
                  /\ d.chapter = chapterId
  IN Limit(SelectSeq(commentDocs, Match), DefaultLimit)

\* this.find(query).sort({ createdAt: -1 }).limit(limit).skip(skip) with
\* the default limit and skip: the top-level, non-deleted comments of the
\* story and chapter (or of the story alone), newest first
TopLevelComments(storyId, chapterId) ==
  LET Match(d) == /\ d.story = storyId
                  /\ d.parentComment = NoRow
                  /\ ~d.isDeleted
                  /\ d.chapter = chapterId
  IN Limit(Reverse(SelectSeq(commentDocs, Match)), DefaultLimit)

\* populate('nestedReplies') for the found comments `found`: one query for
\* the non-deleted replies of all of them, oldest first, limited to
\* limit * found.length, and at most limit of them assigned to each
NestedReplies(found, p) ==
  LET parents    == {found[i].id : i \in 1..Len(found)}
      Match(d)   == d.parentComment \in parents /\ ~d.isDeleted
      fetched    == Limit(SelectSeq(commentDocs, Match), ReplyLimit * Len(found))
      Mine(d)    == d.parentComment = p
  IN Limit(SelectSeq(fetched, Mine), ReplyLimit)

\* commentSchema.statics.getCommentsWithReplies(storyId, chapterId)
GetCommentsWithReplies(storyId, chapterId) ==
  LET found == TopLevelComments(storyId, chapterId)
  IN [i \in 1..Len(found) |->
        [comment |-> found[i], nestedReplies |-> NestedReplies(found, found[i].id)]]

\* comments posted and soft-deleted one after the other
NextComment ==
  \/ \E u \in CommentUsers, t \in CommentScopes,
        parent \in {NoRow} \cup CommentIds, c \in Contents :
       CommentPost(u, t[1], t[2], parent, c)
  \/ \E u \in CommentUsers, t \in CommentScopes,
        parent \in {NoRow} \cup CommentIds, c \in Contents :
       CommentPostReject(u, t[1], t[2], parent, c)
  \/ \E id \in CommentIds : CommentSoftDelete(id)

SpecComment == Init /\ [][NextComment]_vars

\* a thread posted before: a top-level comment on story s1, one reply more
\* than the reply limit, and a later top-level comment with one reply
ThreadSize == ReplyLimit + 4

ThreadSeed ==
  [i \in 1..ThreadSize |->
     NewComment(i, "u2", "s1", Null,
                IF i = 1 \/ i = ThreadSize - 1 THEN NoRow
                ELSE IF i = ThreadSize THEN ThreadSize - 1 ELSE 1,
                "hello")]

\* the comments posted so far are the first k of the thread
InitThread ==
  /\ InitIdle /\ RatingsAre({}) /\ LikesAre({}) /\ FollowsAre({})
  /\ \E k \in 0..ThreadSize : CommentsAre(SubSeq(ThreadSeed, 1, k))

SpecThread == InitThread /\ [][NextComment]_vars

(* ================================ claims =============================== *)

OkLiked(b) == [status |-> "ok", liked |-> b]

LikeCounter(tt, tid) ==
  CASE tt = "story"   -> totalLikes[tid]
    [] tt = "chapter" -> chapterLikes[tid]
    [] tt = "comment" -> commentLikes[tid]

ExistingTargets == {t \in LikeRequests : t[1] \in LikeTypes /\ TargetExists(t[1], t[2])}

\* C1 (as claimed): with one toggle at a time and no store failure, a toggle
\* of an existing target that the user does not like answers liked=true and
\* leaves isLikedBy true; a toggle of a target the user likes answers
\* liked=false and leaves isLikedBy false.
C1_DoubleToggle ==
  [][\A w \in Workers :
       (pc[w] # "done" /\ pc'[w] = "done" /\ req'[w].op = "like"
          /\ req'[w].ttype \in LikeTypes
          /\ TargetExists(req'[w].ttype, req'[w].tid))
       => /\ resp'[w] = OkLiked(~likedAtStart'[w])
          /\ (\E l \in likes' :
                LikeMatches(l, req'[w].user, req'[w].ttype, req'[w].tid))
             = ~likedAtStart'[w]
    ]_vars

\* C2: when every request made so far is a completed, successful toggle of
\* the same target t by pairwise distinct users, t's like counter equals the
\* number of those requests.
C2_NoLostUpdate ==
  \A t \in ExistingTargets :
    LET ws == {w \in Workers : pc[w] # "idle"}
    IN (/\ ws # {}
        /\ \A w \in ws : /\ pc[w] = "done"
                          /\ req[w].op = "like"
                          /\ <<req[w].ttype, req[w].tid>> = t
                          /\ resp[w].status = "ok"
        /\ \A v, w \in ws : v # w => req[v].user # req[w].user)
       => LikeCounter(t[1], t[2]) = Cardinality(ws)

\* two distinct users have liked the same story and both got their answer
C2_Witness ==
  /\ \A w \in Workers : pc[w] = "done" /\ req[w].op = "like"
  /\ \E v, w \in Workers :
       /\ v # w /\ req[v].user # req[w].user
       /\ req[v].ttype = "story" /\ req[w].ttype = "story"
       /\ req[v].tid = "s1" /\ req[w].tid = "s1"
       /\ resp[v] = OkLiked(TRUE) /\ resp[w] = OkLiked(TRUE)
  /\ totalLikes["s1"] >= 2

\* C3 (as claimed): a toggle whose create lost the race against another
\* create of the same key completes with success and reports active=true.
C3_LoserReportsActive ==
  \A w \in Workers :
    (req[w].op = "like" /\ fault[w] = "lostRace") => resp[w] = OkLiked(TRUE)

\* C4: a step changes the Notification collection only when a like toggle
\* answers liked=true for a target the actor does not own, and then it adds
\* exactly one document, from the actor to the owner; an unlike and a like
\* of one's own content add nothing.
C4_Notifies(w) ==
  /\ pc[w] = "lk_respond" /\ pc'[w] = "done"
  /\ resp'[w].status = "ok"
  /\ resp'[w].liked
  /\ TargetOwner(req[w].ttype, req[w].tid) # req[w].user

C4_LikeNotification ==
  [][IF \E w \in Workers : C4_Notifies(w)
     THEN \E w \in Workers :
            /\ C4_Notifies(w)
            /\ notifications' = notifications (+)
                 SetToBag({[recipient |-> TargetOwner(req[w].ttype, req[w].tid),
                            sender    |-> req[w].user,
                            type      |-> LikeNotifType(req[w].ttype),
                            ref       |-> req[w].tid]})
     ELSE notifications' = notifications
    ]_vars

\* a like of someone else's story has been answered and its one
\* notification is stored, while an unlike has been answered as well
C4_Witness ==
  /\ \E w \in Workers :
       /\ pc[w] = "done" /\ req[w].op = "like" /\ resp[w] = OkLiked(TRUE)
       /\ TargetOwner(req[w].ttype, req[w].tid) # req[w].user
       /\ BagCardinality(notifications) = 1
       /\ CopiesIn([recipient |-> TargetOwner(req[w].ttype, req[w].tid),
                    sender |-> req[w].user,
                    type |-> LikeNotifType(req[w].ttype),
                    ref |-> req[w].tid], notifications) = 1
  /\ \E w \in Workers : pc[w] = "done" /\ resp[w] = OkLiked(FALSE)

\* C5 (as claimed): when the notification write of a like fails, the action
\* still answers success with liked=true and the Like collection is as the
\* toggle left it.
C5_NotifyFailureSwallowed ==
  [][\A w \in Workers :
       (pc[w] = "lk_respond" /\ pc'[w] = "done" /\ fault'[w] = "notify")
       => resp'[w] = OkLiked(TRUE) /\ likes' = likes
    ]_vars

\* C6 (as claimed): when the counter update of a post hook fails, the
\* toggle still answers its normal result: liked=true after a create,
\* liked=false after a remove.
C6_CounterFailureSwallowed ==
  \A w \in Workers :
    (req[w].op = "like" /\ fault[w] = "counter")
    => resp[w] = OkLiked(existing[w] = NoRow)

\* C7: a toggleFollow of a user on themselves ends in the self-reference
\* error, and no step of it changes the Follow collection, followersCount
\* or followingCount.
C7_SelfFollow(w) ==
  req'[w].op = "follow" /\ req'[w].follower = req'[w].following

C7_SelfFollowRejected ==
  [][\A w \in Workers :
       (C7_SelfFollow(w) /\ pc'[w] # pc[w])
       => /\ UNCHANGED <<follows, followersCount, followingCount>>
          /\ pc'[w] \in {"done", "fl_find", "fl_save"}
          /\ pc'[w] = "done" => resp'[w] = ErrorResp /\ fault'[w] = "self"
    ]_vars

\* a self-follow that passed the `===` guard has been turned down by the
\* pre('save') hook, and one that did not pass it has been turned down too
C7_Witness ==
  /\ \E w \in Workers :
       /\ pc[w] = "done" /\ req[w].op = "follow"
       /\ req[w].follower = req[w].following /\ ~req[w].strictEq
       /\ resp[w] = ErrorResp
  /\ \E w \in Workers :
       /\ pc[w] = "done" /\ req[w].op = "follow"
       /\ req[w].follower = req[w].following /\ req[w].strictEq
       /\ resp[w] = ErrorResp

\* C8 (as claimed): every like and follow counter is >= 0 in every
\* reachable state.
C8_CountersNonNegative ==
  /\ \A s \in Stories : totalLikes[s] >= 0
  /\ \A c \in Chapters : chapterLikes[c] >= 0
  /\ \A m \in Comments : commentLikes[m] >= 0
  /\ \A u \in Users : followersCount[u] >= 0 /\ followingCount[u] >= 0

\* C9: after every rating create, update or delete, each story's
\* ratingCount is the number n of its Rating documents and its
\* averageRating is sum/n rounded to one decimal with halves up (0 for
\* n = 0): in tenths, a - 1/2 <= 10*sum/n < a + 1/2.  Values 5,3,4 give
\* 4.0, values 5,4 give 4.5 and values summing to 17 over 4 give 4.3.
C9_RatingAggregate ==
  \A s \in Stories :
    LET mine == {r \in ratings : r.story = s}
        n    == Cardinality(mine)
        sum  == SumValues(mine)
        a    == averageRating[s]
    IN /\ ratingCount[s] = n
       /\ n = 0 => a = 0
       /\ n > 0 => 2 * n * a <= 20 * sum + n /\ 20 * sum + n < 2 * n * (a + 1)
       /\ (n = 3 /\ sum = 12) => a = 40
       /\ (n = 2 /\ sum = 9) => a = 45
       /\ (n = 4 /\ sum = 17) => a = 43

\* the rating 3 of 5,3,4 has just been removed from s1: 4.5 over 2 ratings
C9_Witness ==
  /\ ratingResp = "removed"
  /\ {r.value : r \in {x \in ratings : x.story = "s1"}} = {5, 4}
  /\ ratingCount["s1"] = 2
  /\ averageRating["s1"] = 45
  /\ \E r \in ratings : r.story = "s2"

\* C10: the insert of a fan-out adds, for every user x, one new_chapter
\* notification if x had an active Follow document on the author when the
\* fan-out read the followers and none otherwise, all in that one step;
\* no other step changes the Notification collection.
C10_ActiveFollowers(w) ==
  {f \in followsAtRead[w] : f.isActive /\ f.following = req[w].author}

C11_NoSelfNotification ==
  /\ \A f \in follows : f.follower # f.following
  /\ \A x \in Users, c \in Chapters :
       CopiesIn([recipient |-> x, sender |-> x, type |-> "new_chapter",
                 ref |-> c], notifications) = 0

\* the author's attempt to follow themselves, which passed the `===` guard,
\* has been turned down, and the author's fan-out has notified a follower
C11_Witness ==
  \E v, w \in Workers :
    /\ pc[v] = "done" /\ req[v].op = "follow"
    /\ req[v].follower = "u1" /\ req[v].following = "u1" /\ ~req[v].strictEq
    /\ pc[w] = "done" /\ req[w].op = "publish" /\ req[w].author = "u1"
    /\ BagCardinality(notifications) >= 1

\* C13: a like request with a type outside story/chapter/comment is answered
\* 400 whatever its id, one with a valid type and an id that is not in the
\* store is answered 404, both in the step that receives them, and that
\* step changes no collection and no counter; every other request goes on.
C13_Rejected(w) ==
  \/ req'[w].ttype \notin LikeTypes
  \/ ~TargetExists(req'[w].ttype, req'[w].tid)

C13_RejectionChangesNothing ==
  [][\A w \in Workers :
       (pc[w] = "idle" /\ pc'[w] # "idle" /\ req'[w].op = "like")
       => IF C13_Rejected(w)
          THEN /\ pc'[w] = "done"
               /\ resp'[w] = [status |-> IF req'[w].ttype \notin LikeTypes
                                         THEN "400" ELSE "404"]
               /\ UNCHANGED <<likeVars, notifications, followVars, ratingVars, commentVars, storyVars>>
          ELSE pc'[w] = "lk_find"
    ]_vars

\* one request was turned down for its type and another for its missing
\* target, and the store is as it was
C13_Witness ==
  /\ \E v, w \in Workers :
       /\ pc[v] = "done" /\ resp[v] = [status |-> "400"]
       /\ pc[w] = "done" /\ resp[w] = [status |-> "404"]
       /\ req[w].ttype \in LikeTypes
  /\ likes = {}
  /\ notifications = EmptyBag
  /\ \A s \in Stories : totalLikes[s] = 0

\* C14: once a toggle has written or removed its Like (Follow) document, no
\* later step of the same toggle, failing or not, changes the Like (Follow)
\* collection.
C14_NoRollback ==
  [][\A w \in Workers :
       pc'[w] # pc[w]
       => /\ pc[w] \in {"lk_postSave", "lk_postRemove", "lk_respond"}
               => likes' = likes
          /\ pc[w] \in {"fl_postSave1", "fl_postSave2",
                        "fl_postRemove1", "fl_postRemove2"}
               => follows' = follows
    ]_vars

\* a like whose counter update or notification failed and a follow whose
\* counter update failed have both kept the document they saved
C14_Witness ==
  \E v, w \in Workers :
    /\ pc[v] = "done" /\ req[v].op = "like"
    /\ fault[v] \in {"counter", "notify"}
    /\ OwnLike(v) \in likes
    /\ pc[w] = "done" /\ req[w].op = "follow"
    /\ fault[w] = "counter"
    /\ OwnFollow(w) \in follows

\* C15: the Like collection never holds two documents with the same user,
\* the same target and the same type.
C15_OneLikePerKey ==
  \A k, l \in likes :
    (k.user = l.user /\ k.type = l.type /\ k.story = l.story
       /\ k.chapter = l.chapter /\ k.comment = l.comment)
    => k = l

\* two toggles of the same user and target both found no like and both
\* tried to create it: one document is stored, the other create was refused
C15_Witness ==
  \E v, w \in Workers :
    /\ v # w
    /\ req[v].op = "like" /\ req[w].op = "like"
    /\ req[v].user = req[w].user
    /\ req[v].ttype = req[w].ttype /\ req[v].tid = req[w].tid
    /\ existing[v] = NoRow /\ existing[w] = NoRow
    /\ OwnLike(v) \in likes
    /\ pc[w] = "done" /\ fault[w] = "lostRace"
    /\ Cardinality(likes) = 1

LikesOn(tt, tid) ==
  {l \in likes : l.type = tt /\ (CASE tt = "story"   -> l.story = tid
                                   [] tt = "chapter" -> l.chapter = tid
                                   [] tt = "comment" -> l.comment = tid)}

\* C16 (as claimed): with no store failure and no error answer, whenever no
\* toggle is in flight every like counter equals the number of Like
\* documents of its target.
C16_CountersMatchRows ==
  (/\ \A w \in Workers : pc[w] \in {"idle", "done"}
   /\ \A w \in Workers : resp[w].status # "error")
  => \A t \in ExistingTargets :
       LikeCounter(t[1], t[2]) = Cardinality(LikesOn(t[1], t[2]))

\* two workers that both found the same Like document and both went on to
\* remove it
RacingRemovers(w1, w2) ==
  /\ w1 # w2
  /\ existing[w1] # NoRow
  /\ existing[w1] = existing[w2]
  /\ req[w1].op = "like" /\ req[w2].op = "like"
  /\ pc[w1] = "done" /\ pc[w2] = "done"

\* C17: when two ToggleLike(U,T) calls both find U's like on T and both
\* attempt the removal, both complete successfully with liked = false and
\* the like document they removed is absent afterwards
C17_BothRemoversSucceed ==
  \A w1, w2 \in Workers :
    RacingRemovers(w1, w2) =>
      /\ resp[w1] = OkLiked(FALSE)
      /\ resp[w2] = OkLiked(FALSE)
      /\ ~\E l \in likes : l.id = existing[w1]

C17_Witness ==
  \E w1, w2 \in Workers :
    /\ RacingRemovers(w1, w2)
    /\ resp[w1] = OkLiked(FALSE)
    /\ resp[w2] = OkLiked(FALSE)
    /\ likes = {}

\* the rating requests are all answered
RatingQuiescent == \A w \in Workers : pc[w] \in {"idle", "done"}

\* C18: once concurrent rating creates, updates and deletes on a story and
\* the recomputes they trigger have all completed, the story's ratingCount
\* is the number of its Rating documents and averageRating their mean
\* rounded to one decimal
C18_AggregateCurrent ==
  RatingQuiescent =>
    \A s \in Stories :
      /\ ratingCount[s] = RatingAggregate(RatingsOf(ratings, s)).ratingCount
      /\ averageRating[s] = RatingAggregate(RatingsOf(ratings, s)).averageRating

\* C19: in every state a story's (averageRating, ratingCount) is (0, 0) or
\* the aggregate of a set of Rating documents that were in the store
\* together at some instant
C19_AggregateOfSomeInstant ==
  \A s \in Stories :
    \/ averageRating[s] = 0 /\ ratingCount[s] = 0
    \/ \E rows \in ratingsSeen :
         /\ averageRating[s] = RatingAggregate(RatingsOf(rows, s)).averageRating
         /\ ratingCount[s] = RatingAggregate(RatingsOf(rows, s)).ratingCount

\* the non-deleted replies of the comment p
LiveReplies(p) ==
  {j \in CommentIds : commentDocs[j].parentComment = p /\ ~commentDocs[j].isDeleted}

\* C12: after SoftDelete of a top-level comment P that has non-deleted
\* replies, getCommentsWithReplies for P's story and chapter still returns
\* P, with isDeleted = true and the tombstone as its content, carrying P's
\* replies
C12_DeletedParentListed ==
  \A i \in CommentIds :
    LET P == commentDocs[i]
        listed == GetCommentsWithReplies(P.story, P.chapter)
    IN (P.parentComment = NoRow /\ P.isDeleted /\ LiveReplies(P.id) # {})
       => \E k \in DOMAIN listed :
            /\ listed[k].comment.id = P.id
            /\ listed[k].comment.isDeleted
            /\ listed[k].comment.content = Tombstone
            /\ {listed[k].nestedReplies[n].id :
                  n \in DOMAIN listed[k].nestedReplies} = LiveReplies(P.id)

\* C20: a successful Post adds exactly 1 to the story's totalComments, adds
\* exactly 1 to the chapter's commentsCount iff the comment has a chapter,
\* and appends the new id to the parent's replies iff the comment has a
\* parent
C20_PostCounts ==
  [][Len(commentDocs') = Len(commentDocs) + 1 =>
       LET d == commentDocs'[Len(commentDocs')]
       IN /\ totalComments' = [totalComments EXCEPT ![d.story] = @ + 1]
          /\ \A c \in Chapters :
               commentsCount'[c] = commentsCount[c] + IF d.chapter = c THEN 1 ELSE 0
          /\ \A i \in CommentIds :
               commentDocs'[i].replies =
                 IF commentDocs[i].id = d.parentComment
                 THEN Append(commentDocs[i].replies, d.id)
                 ELSE commentDocs[i].replies]_vars

\* the non-deleted replies of the comment p, oldest first
LiveReplySeq(p) ==
  LET Match(d) == d.parentComment = p /\ ~d.isDeleted
  IN SelectSeq(commentDocs, Match)

\* the last n elements of a sequence
Last(seq, n) == SubSeq(seq, Len(seq) - Min(Len(seq), n) + 1, Len(seq))

\* C21: every listed top-level comment carries its 5 most recently created
\* non-deleted replies, oldest first, or all of its non-deleted replies
\* when there are 5 or fewer; deleted replies are never carried
C21_MostRecentReplies ==
  \A t \in CommentScopes :
    LET listed == GetCommentsWithReplies(t[1], t[2])
    IN \A k \in DOMAIN listed :
         listed[k].nestedReplies =
           Last(LiveReplySeq(listed[k].comment.id), ReplyLimit)

\* the ids of a sequence of comments decrease: newest first
NewestFirst(seq) ==
  \A i, j \in DOMAIN seq : i < j => seq[i].id > seq[j].id

\* the ids of a sequence of comments increase: oldest first
OldestFirst(seq) ==
  \A i, j \in DOMAIN seq : i < j => seq[i].id < seq[j].id

\* the comments of a listing, without their replies
ListedComments(listed) == [k \in DOMAIN listed |-> listed[k].comment]

\* C22: getCommentsWithReplies(storyId, chapterId) returns only top-level
\* comments of the story, of the chapter when one is given and of the story
\* alone otherwise, newest first, each with its replies oldest first
C22_ListingScopeAndOrder ==
  \A t \in CommentScopes :
    LET listed == GetCommentsWithReplies(t[1], t[2])
    IN /\ \A k \in DOMAIN listed :
            /\ listed[k].comment.parentComment = NoRow
            /\ listed[k].comment.story = t[1]
            /\ listed[k].comment.chapter = t[2]
            /\ OldestFirst(listed[k].nestedReplies)
            /\ \A n \in DOMAIN listed[k].nestedReplies :
                 listed[k].nestedReplies[n].parentComment = listed[k].comment.id
       /\ NewestFirst(ListedComments(listed))

C22_Witness ==
  LET listed == GetCommentsWithReplies("s1", Null)
  IN /\ Len(listed) > 1
     /\ \E k \in DOMAIN listed : Len(listed[k].nestedReplies) > 1
     /\ \E i \in CommentIds : commentDocs[i].isDeleted

\* C23: softDelete of a comment c sets c.isDeleted, stamps c.deletedAt and
\* replaces c.content with the tombstone; totalComments, commentsCount, the
\* replies list of c, and every other comment (its parent and its replies
\* among them) stay as they were
C23_SoftDeleteFrame ==
  [][commentResp' = "deleted" =>
       /\ Len(commentDocs') = Len(commentDocs)
       /\ \E id \in CommentIds :
            /\ commentDocs'[id].isDeleted
            /\ commentDocs'[id].deletedAt # Null
            /\ commentDocs'[id].content = Tombstone
            /\ commentDocs'[id].replies = commentDocs[id].replies
            /\ \A j \in CommentIds \ {id} : commentDocs'[j] = commentDocs[j]
       /\ UNCHANGED <<totalComments, commentsCount>>]_vars

C23_Witness ==
  /\ commentResp = "deleted"
  /\ \E id \in CommentIds :
       /\ commentDocs[id].isDeleted
       /\ commentDocs[id].content = Tombstone
       /\ commentDocs[id].parentComment # NoRow
       /\ ~commentDocs[commentDocs[id].parentComment].isDeleted
       /\ LiveReplies(id) # {}

\* the document createFollowNotification writes
FollowNotification(a, b) ==
  [recipient |-> b, sender |-> a, type |-> "follow", ref |-> a]

\* the completed toggleFollow(a, b) calls that answered { following: flag }
FollowAnswers(a, b, flag) ==
  {w \in Workers : /\ pc[w] = "done" /\ req[w].op = "follow"
                   /\ req[w].follower = a /\ req[w].following = b
                   /\ resp[w] = [status |-> "ok", following |-> flag]}

\* C24: every toggleFollow(A, B) that created the follow has emitted exactly
\* one 'follow' notification with recipient B and sender A, and the ones
\* that removed the follow have emitted none
C24_FollowNotified ==
  \A a, b \in Users :
    CopiesIn(FollowNotification(a, b), notifications)
      = Cardinality(FollowAnswers(a, b, TRUE))

\* the completed createCommentNotification calls of an actor other than the
\* owner that account for the notification n
CommentCalls(n) ==
  {w \in Workers :
     /\ pc[w] = "done" /\ req[w].op = "notifyComment"
     /\ req[w].user # req[w].owner
     /\ n.sender = req[w].user /\ n.recipient = req[w].owner
     /\ n.type = "comment_chapter" <=> req[w].chapter # Null
     /\ n.type = "comment_story" <=> req[w].chapter = Null
     /\ n.ref = IF req[w].chapter # Null THEN req[w].chapter ELSE req[w].story}

LikeRefs(l) == {f \in {"story", "chapter", "comment"} : l[f] # Null}

\* C26: every Like document has exactly one of story, chapter and comment
\* set and its type names that reference; a save of a document with zero or
\* several references set is rejected and stores nothing
C26_OneTarget ==
  /\ \A l \in likes : LikeRefs(l) = {l.type}
  /\ \A w \in Workers :
       (/\ pc[w] = "done" /\ req[w].op = "likeSave"
        /\ Cardinality(LikeRefs(req[w].doc)) # 1)
       => /\ resp[w] = ErrorResp
          /\ ~\E l \in likes : l.id = req[w].doc.id

C26_Witness ==
  \E v, w \in Workers :
    /\ pc[v] = "done" /\ req[v].op = "likeSave"
    /\ Cardinality(LikeRefs(req[v].doc)) = 2 /\ resp[v] = ErrorResp
    /\ pc[w] = "done" /\ req[w].op = "likeSave"
    /\ LikeRefs(req[w].doc) = {"chapter"} /\ req[w].doc.type = "story"
    /\ \E l \in likes : l.id = req[w].doc.id /\ l.type = "chapter"

\* C27: under any interleaving of toggleFollow calls every Follow document
\* has a follower different from the followed user, there is at most one
\* document per (follower, following), and an unfollow deletes the document:
\* no stored document is inactive and the one that was unfollowed is gone
C27_FollowRows ==
  /\ \A f \in follows : f.follower # f.following /\ f.isActive
  /\ \A f, g \in follows :
       (f.follower = g.follower /\ f.following = g.following) => f = g
  /\ \A w \in Workers :
       (/\ pc[w] = "done" /\ req[w].op = "follow"
        /\ resp[w] = [status |-> "ok", following |-> FALSE])
       => ~\E f \in follows : f.id = existing[w]

C27_Witness ==
  \E v, w \in Workers :
    /\ pc[v] = "done" /\ req[v].op = "follow"
    /\ pc[w] = "done" /\ req[w].op = "follow"
    /\ req[v].follower = req[w].follower /\ req[v].following = req[w].following
    /\ resp[v] = [status |-> "ok", following |-> TRUE]
    /\ fault[w] = "lostRace"
    /\ \E f \in follows : f.follower = req[v].follower /\ f.following = req[v].following

\* the worker w answers a checkLikeStatus request in this step
Checks(w) == pc[w] = "idle" /\ pc'[w] = "done" /\ req'[w].op = "checkLike"

\* C28: checkLikeStatus answers isLiked = true exactly when a Like document
\* of the user for the target and type exists, and it changes no Like
\* document, no counter and no notification
C28_CheckIsPure ==
  [][\A w \in Workers :
       Checks(w) =>
         /\ req'[w].ttype \in LikeTypes =>
              resp'[w] = [status |-> "ok",
                          isLiked |-> \E l \in likes :
                                        /\ l.user = req'[w].user
                                        /\ l.type = req'[w].ttype
                                        /\ l[req'[w].ttype] = req'[w].tid]
         /\ UNCHANGED <<likeVars, notifications>>]_vars

C28_Witness ==
  \E v, w \in Workers :
    /\ pc[v] = "done" /\ req[v].op = "checkLike"
    /\ resp[v] = [status |-> "ok", isLiked |-> TRUE]
    /\ pc[w] = "done" /\ req[w].op = "checkLike"
    /\ resp[w] = [status |-> "ok", isLiked |-> FALSE]
    /\ req[w].ttype = req[v].ttype /\ req[w].tid = req[v].tid

\* the documents and counters other than notifications
StoreVars ==
  <<likes, totalLikes, chapterLikes, commentLikes, follows, followersCount,
    followingCount, ratings, averageRating, ratingCount, commentDocs,
    totalComments, commentsCount>>

\* C29: a step that creates notifications (for a like, a follow, a comment
\* or a new chapter) only adds Notification documents: every Like, Follow,
\* Comment and Rating document and every counter of a story, chapter,
\* comment or user is left as it was
C29_NotificationsOnlyAdd ==
  [][notifications' # notifications =>
       /\ notifications \sqsubseteq notifications'
       /\ UNCHANGED StoreVars]_vars

C29_Witness ==
  /\ follows # {}
  /\ \E n \in BagToSet(notifications) : n.type = "new_chapter"
  /\ \E n \in BagToSet(notifications) :
       n.type \in {"follow", "comment_story", "comment_chapter", "like_story",
                   "like_chapter", "like_comment"}

\* C30: when toggles run one at a time and nothing fails, after every
\* completed toggleLike each story's totalLikes, chapter's likes and
\* comment's likes is the number of Like documents that reference it
C30_SequentialCounters ==
  (\A w \in Workers : Alone(w) /\ pc[w] \in {"idle", "done"})
    => /\ \A s \in Stories :
            totalLikes[s] = Cardinality({l \in likes : l.story = s})
       /\ \A c \in Chapters :
            chapterLikes[c] = Cardinality({l \in likes : l.chapter = c})
       /\ \A m \in Comments :
            commentLikes[m] = Cardinality({l \in likes : l.comment = m})

C30_Witness ==
  /\ \A w \in Workers : pc[w] = "done" /\ resp[w] = OkLiked(TRUE)
  /\ \E s \in Stories : totalLikes[s] = NumWorkers

\* C31: when follow toggles run one at a time and nothing fails, after
\* every completed toggleFollow each user's followersCount is the number
\* of Follow documents that follow that user and followingCount the number
\* of Follow documents of that user as follower: a follow has added 1 to
\* each side and an unfollow has subtracted 1
C31_SequentialFollowCounters ==
  (\A w \in Workers : pc[w] \in {"idle", "done"})
    => \A x \in Users :
         /\ followersCount[x] = Cardinality({f \in follows : f.following = x})
         /\ followingCount[x] = Cardinality({f \in follows : f.follower = x})

C31_Witness ==
  \E v, w \in Workers :
    /\ pc[v] = "done" /\ resp[v] = [status |-> "ok", following |-> TRUE]
    /\ pc[w] = "done" /\ resp[w] = [status |-> "ok", following |-> FALSE]
    /\ followersCount[req[v].following] > 0
    /\ followingCount[req[v].follower] > 0

\* what the step of the like worker w adds to the like counter of target t:
\* +1 when post('save') completes, -1 when post('remove') completes, on the
\* target of the request only
LikeDelta(w, t) ==
  IF t # <<req'[w].ttype, req'[w].tid>> \/ pc'[w] # "lk_respond" THEN 0
  ELSE IF pc[w] = "lk_postSave" THEN 1
  ELSE IF pc[w] = "lk_postRemove" THEN -1
  ELSE 0

\* C32: a toggleLike on target T changes only T's own like counter
\* (totalLikes of a story, likes of a chapter or comment), by +1 on like and
\* -1 on unlike; the like counters of every other story, chapter and
\* comment, the comment counters and the follow counters stay as they were
C32_OnlyOwnCounter ==
  [][\A w \in Workers :
       (pc'[w] # pc[w] /\ req'[w].op = "like") =>
         /\ \A t \in ExistingTargets :
              LikeCounter(t[1], t[2])' = LikeCounter(t[1], t[2]) + LikeDelta(w, t)
         /\ UNCHANGED <<totalComments, commentsCount, followersCount,
                        followingCount>>]_vars

C32_Witness ==
  \E v, w \in Workers :
    /\ pc[v] = "done" /\ req[v].op = "like" /\ req[v].ttype = "chapter"
    /\ resp[v] = OkLiked(TRUE)
    /\ chapterLikes[req[v].tid] = 1
    /\ pc[w] = "done" /\ req[w].op = "like" /\ req[w].ttype = "story"
    /\ resp[w] = OkLiked(FALSE)

\* the like counters
LikeCounterVars == <<totalLikes, chapterLikes, commentLikes>>

\* C33: within one toggleLike the target lookup precedes the write of the
\* Like document, the counter update comes only after that write, and the
\* notification only after the counter update; a notification is written
\* only by a toggle that has stored its Like document
C33_StepOrder ==
  [][\A w \in Workers :
       (pc'[w] # pc[w] /\ req'[w].op = "like") =>
         /\ likes' # likes =>
              /\ pc[w] \in {"lk_save", "lk_remove"}
              /\ LikeValidation(req[w].ttype, req[w].tid) = "ok"
         /\ pc'[w] = "lk_postSave" =>
              pc[w] = "lk_save" /\ OwnLike(w) \in likes' \ likes
         /\ pc'[w] = "lk_postRemove" => pc[w] = "lk_remove"
         /\ LikeCounterVars' # LikeCounterVars =>
              pc[w] \in {"lk_postSave", "lk_postRemove"}
         /\ pc'[w] = "lk_respond" =>
              /\ pc[w] \in {"lk_postSave", "lk_postRemove"}
              /\ LikeCounterVars' # LikeCounterVars
              /\ result'[w].liked <=> pc[w] = "lk_postSave"
         /\ notifications' # notifications =>
              pc[w] = "lk_respond" /\ result[w].liked]_vars

C33_Witness ==
  \E w \in Workers :
    /\ pc[w] = "done" /\ req[w].op = "like" /\ resp[w] = OkLiked(TRUE)
    /\ OwnLike(w) \in likes
    /\ LikeCounter(req[w].ttype, req[w].tid) > 0
    /\ BagIn(LikeNotification(req[w].user, req[w].ttype, req[w].tid,
                              TargetOwner(req[w].ttype, req[w].tid)),
             notifications)

\* two completed toggles of one user on two different targets, neither of
\* which the user had liked before
LikesTwoTargets(v, w) ==
  /\ pc[v] = "done" /\ req[v].op = "like"
  /\ pc[w] = "done" /\ req[w].op = "like"
  /\ req[v].user = req[w].user
  /\ <<req[v].ttype, req[v].tid>> # <<req[w].ttype, req[w].tid>>
  /\ LikeValidation(req[v].ttype, req[v].tid) = "ok"
  /\ LikeValidation(req[w].ttype, req[w].tid) = "ok"
  /\ ~likedAtStart[v] /\ ~likedAtStart[w]

\* C34: the uniqueness of likes is keyed on (user, target, type): a user who
\* holds a like on a target T1 can still like a different target T2 of the
\* same or another type; the toggle answers liked = true and the user then
\* holds both likes
C34_KeyedOnFullKey ==
  \A v, w \in Workers :
    LikesTwoTargets(v, w) =>
      /\ resp[v] = OkLiked(TRUE) /\ resp[w] = OkLiked(TRUE)
      /\ OwnLike(v) \in likes /\ OwnLike(w) \in likes

\* the toggle of worker w has started and has not answered yet
LikeRunning(w) == pc[w] \notin {"idle", "done"}

\* C35: under weak fairness of each worker's steps and of the store's
\* answers, every started toggleLike eventually reaches a terminal outcome
\* (success, rejection or error), and at no point does a running toggle
\* need a step of another worker to continue
C35_EveryToggleEnds ==
  /\ \A w \in Workers : LikeRunning(w) ~> pc[w] = "done"
  /\ [](\A w \in Workers : LikeRunning(w) => ENABLED LikeProgress(w))

C35_Witness ==
  \E v, w \in Workers :
    /\ pc[v] = "done" /\ req[v].op = "like" /\ resp[v] = OkLiked(TRUE)
    /\ pc[w] = "done" /\ req[w].op = "like" /\ fault[w] = "lostRace"

\* C36: softDelete does not mark the comment as edited: isEdited and
\* editedAt of every comment are the same after the softDelete as before
C36_SoftDeleteNotEdited ==
  [][commentResp' = "deleted" =>
       \A id \in CommentIds :
         /\ commentDocs'[id].isEdited = commentDocs[id].isEdited
         /\ commentDocs'[id].editedAt = commentDocs[id].editedAt]_vars

\* C37: a toggleLike on an existing target whose owner cannot be resolved
\* (the populated author or user is null) still performs the toggle and
\* returns its result, and emits no notification: every notification there
\* is comes from a toggle whose owner was resolved
C37_OwnerGoneStillToggles ==
  \A w \in Workers :
    (pc[w] = "done" /\ req[w].op = "like" /\ fault[w] = "ownerNull")
      => /\ resp[w] \in {OkLiked(TRUE), OkLiked(FALSE)}
         /\ BagCardinality(notifications)
              <= Cardinality({v \in Workers : /\ req[v].op = "like"
                                              /\ fault[v] # "ownerNull"})

(* ------------------------------ Story model --------------------------- *)

\* a request without a token: optionalAuth leaves req.userId undefined
Anonymous == Null

\* the users whose role is 'admin'
Admins == {"u3"}

\* storySchema.visibility; s2 is a private story, s1 has the default
StoryVisibility(s) == IF s = "s2" THEN "private" ELSE "public"

StoryParams == Stories \cup {Missing}

StoryResp(code) == [status |-> code]

\* this.totalViews += 1 on the loaded document; save() then writes the
\* modified path as { $set: { totalViews: <loaded + 1> } }
incrementViews(loaded) == loaded + 1

StoryUnchangedRest ==
  UNCHANGED <<existing, result, likedAtStart, totalLikes, chapterLikes,
              commentLikes, notifications, followVars, averageRating,
              ratingCount, ratingResp, storyLoaded, ratingsRead, ratingsSeen,
              totalComments, commentsCount, commentResp>>

\* getStory up to the call of incrementViews: findById, the 404 and the
\* private-story check
GetStoryFind(w, u, s) ==
  /\ pc[w] = "idle"
  /\ req' = [req EXCEPT ![w] = [op |-> "getStory", user |-> u, story |-> s]]
  /\ IF s \notin storyDocs
       THEN Finish(w, StoryResp("404"), "none") /\ UNCHANGED viewsLoaded
     ELSE IF /\ StoryVisibility(s) = "private"
             /\ (u = Anonymous \/ StoryAuthor(s) # u)
       THEN Finish(w, StoryResp("403"), "none") /\ UNCHANGED viewsLoaded
     ELSE /\ pc' = [pc EXCEPT ![w] = "gs_views"]
          /\ viewsLoaded' = [viewsLoaded EXCEPT ![w] = totalViews[s]]
          /\ UNCHANGED <<resp, fault>>
  /\ UNCHANGED <<likes, ratings, commentDocs, storyDocs, totalViews,
                 storiesCount>>
  /\ StoryUnchangedRest

\* the save() that incrementViews started reaches the store, and the request
\* is answered; a save of a document deleted meanwhile writes nothing
GetStoryIncrementViews(w) ==
  /\ pc[w] = "gs_views"
  /\ LET s == req[w].story IN
       totalViews' = IF s \in storyDocs
                       THEN [totalViews EXCEPT
                               ![s] = incrementViews(viewsLoaded[w])]
                       ELSE totalViews
  /\ Finish(w, StoryResp("ok"), "none")
  /\ UNCHANGED <<req, likes, ratings, commentDocs, storyDocs, viewsLoaded,
                 storiesCount>>
  /\ StoryUnchangedRest

\* deleteStory up to the ownership check: the author and an admin pass
DeleteStoryFind(w, u, s) ==
  /\ pc[w] = "idle"
  /\ req' = [req EXCEPT ![w] = [op |-> "deleteStory", user |-> u, story |-> s]]
  /\ IF s \notin storyDocs
       THEN Finish(w, StoryResp("404"), "none")
     ELSE IF StoryAuthor(s) # u /\ u \notin Admins
       THEN Finish(w, StoryResp("403"), "none")
     ELSE /\ pc' = [pc EXCEPT ![w] = "ds_cascade"]
          /\ UNCHANGED <<resp, fault>>
  /\ UNCHANGED <<likes, ratings, commentDocs, storyVars>>
  /\ StoryUnchangedRest

\* Promise.all of the deleteMany({ story }) calls: the documents go, no
\* document hook runs (the Chapter documents are fixtures of this model)
DeleteStoryCascade(w) ==
  /\ pc[w] = "ds_cascade"
  /\ LET s == req[w].story IN
       /\ likes' = {l \in likes : l.story # s}
       /\ ratings' = {r \in ratings : r.story # s}
       /\ commentDocs' = SelectSeq(commentDocs, LAMBDA d : d.story # s)
  /\ pc' = [pc EXCEPT ![w] = "ds_delete"]
  /\ UNCHANGED <<req, resp, fault, storyVars>>
  /\ StoryUnchangedRest

\* story.deleteOne()
DeleteStoryDeleteOne(w) ==
  /\ pc[w] = "ds_delete"
  /\ storyDocs' = storyDocs \ {req[w].story}
  /\ pc' = [pc EXCEPT ![w] = "ds_count"]
  /\ UNCHANGED <<req, resp, fault, likes, ratings, commentDocs, totalViews,
                 viewsLoaded, storiesCount>>
  /\ StoryUnchangedRest

\* User.findByIdAndUpdate(req.userId, { $inc: { storiesCount: -1 } }), then
\* the success response
DeleteStoryCount(w) ==
  /\ pc[w] = "ds_count"
  /\ storiesCount' = [storiesCount EXCEPT ![req[w].user] = @ - 1]
  /\ Finish(w, StoryResp("ok"), "none")
  /\ UNCHANGED <<req, likes, ratings, commentDocs, storyDocs, totalViews,
                 viewsLoaded>>
  /\ StoryUnchangedRest

\* both stories exist, s1 carries one like
InitStory == InitRest /\ FollowsAre({}) /\ LikesAre(SeedLikes)

NextStory ==
  \E w \in Workers :
    \/ \E u \in Users \cup {Anonymous}, s \in StoryParams : GetStoryFind(w, u, s)
    \/ GetStoryIncrementViews(w)
    \/ \E u \in Users, s \in StoryParams : DeleteStoryFind(w, u, s)
    \/ DeleteStoryCascade(w)
    \/ DeleteStoryDeleteOne(w)
    \/ DeleteStoryCount(w)

SpecStory == InitStory /\ [][NextStory]_vars

\* the completed getStory requests that viewed story s
ViewsServed(s) ==
  Cardinality({w \in Workers : /\ pc[w] = "done"
                               /\ req[w].op = "getStory"
                               /\ req[w].story = s
                               /\ resp[w] = StoryResp("ok")})

\* C38: once all the getStory requests on a story have completed, its
\* totalViews has grown by exactly their number (it starts at 0): no view
\* increment is lost
C38_NoViewLost ==
  \A s \in storyDocs :
    (\A w \in Workers : pc[w] \in {"idle", "done"})
      => totalViews[s] = ViewsServed(s)

\* C39: the step that completes a successful deleteStory decrements the
\* storiesCount of the deleted story's author by exactly 1 and changes no
\* other user's storiesCount, whoever the requester is
C39_AuthorCountDecremented ==
  [][\A w \in Workers :
       (pc[w] = "ds_count" /\ pc'[w] = "done")
         => storiesCount' = [storiesCount EXCEPT
                               ![StoryAuthor(req[w].story)] = @ - 1]]_vars

====
